---- MODULE Spec2Model ----
(***************************************************************************)
(* Model of package bouncer (src/bouncer.go): a button whose interrupt     *)
(* handler HandlePin sends timestamped pin samples to isrChan, and whose   *)
(* goroutine RecognizeAndPublish consumes them together with ticks,        *)
(* measures the button-down duration, classifies it with recognize and     *)
(* sends the PressLength to every output channel with publish.             *)
(* Durations and times are integers in milliseconds.                       *)
(***************************************************************************)
EXTENDS Integers, Sequences, FiniteSets, TLC

VARIABLES
    constructed,       \* New has returned a button
    debounceInterval,  \* button.debounceInterval
    shortPress,        \* button.shortPress
    longPress,         \* button.longPress
    extraLongPress,    \* button.extraLongPress
    err,               \* the error returned by the last New / Set... call
    now,               \* the clock read by time.Now()
    isrChan,           \* button.isrChan: the Bounces buffered in the channel, followed by
                       \* the Bounce of a HandlePin blocked in its send, if any
    outChans,          \* button.outChans: the buffered values of each output channel
    ticks,             \* RecognizeAndPublish: local ticks
    btnDown,           \* RecognizeAndPublish: local btnDown
    pc,                \* RecognizeAndPublish: "select" (at its select) or "publish" (in publish)
    i,                 \* publish: loop index (1-based), 0 outside publish
    p,                 \* publish: the PressLength being sent, Debounce outside publish
    tickSeen,          \* history: the ticks consumed since the down-edge that set ticks to 1
    setPc,             \* SetPressDurations run field by field: "idle", "lp", "elp", "done"
    setArgs,           \* SetPressDurations run field by field: its arguments <<sp, lp, elp>>
    recPc,             \* recognize run read by read: "idle" or the comparison it is at
    recD,              \* recognize run read by read: its argument d, the duration
    outIds,            \* button.outChans: the channels in the slice, by identity;
                       \* outChans[k] holds what is buffered in channel outIds[k]
    outsArg,           \* history: <<outs>> for the outs of the last New call, <<>> before it
    pubLog,            \* history: the PressLengths passed to publish, in order
    sentLog,           \* history: <<k, c>> for each send of c to b.outChans[k], in order
    downAt,            \* history: the time of the last down-edge consumed with ticks = 0
    downs,             \* history: the down-edges consumed with ticks = 0 since the last
                       \* call of publish, counted up to MaxDowns
    run,               \* two buttons compared: 0 (no comparison), 1 (the first button
                       \* runs) or 2 (the second button runs)
    edges,             \* two buttons compared: the edges both receive
    sched,             \* two buttons compared: the events the first button's recognizer
                       \* went through ("tick", "isr", "send"), in order
    obs,               \* two buttons compared: after each of these events, the state
                       \* of the first button's recognizer
    pos                \* two buttons compared: the events the second button's
                       \* recognizer has gone through

vars == <<constructed, debounceInterval, shortPress, longPress, extraLongPress, err,
          now, isrChan, outChans, ticks, btnDown, pc, i, p, tickSeen,
          setPc, setArgs, recPc, recD, outIds, outsArg, pubLog, sentLog,
          downAt, downs, run, edges, sched, obs, pos>>

cfgVars == <<debounceInterval, shortPress, longPress, extraLongPress>>
recVars == <<ticks, btnDown, pc, i, p, tickSeen>>
\* a call of SetPressDurations and a call of recognize under way
raceVars == <<setPc, setArgs, recPc, recD>>
\* the subscriber set and the argument it was built from
subVars == <<outIds, outsArg>>
\* the record of the publications, kept where their order is examined
logVars == <<pubLog, sentLog>>
\* the record of the down-edges that began a press
downVars == <<downAt, downs>>
\* the comparison of two buttons
twinVars == <<run, edges, sched, obs, pos>>
\* what the actions of the whole handlers leave alone, New and the recognizer's
\* receive from isrChan apart
auxVars == <<raceVars, subVars, logVars, downVars, twinVars>>

----------------------------------------------------------------------------
\* Bounds of the model

\* capacity of the isrChan buffer handed to New
IsrCap == 1
\* capacity of each output channel handed to New
OutCap == 1
\* the largest number of output channels handed to New
MaxOuts == 2
\* ticks is not incremented beyond this value
MaxTicks == 3
\* the presses whose publication is recorded
MaxPresses == 2
\* the down-edges that begin a press are counted up to this value
MaxDowns == 2
\* two buttons compared: the edges they receive and the events their
\* recognizers go through
MaxEdges == 3
MaxEvents == 5
\* the width in bits of the Go int that holds ticks
IntWidth == 4

\* the channels a caller may hand to New
ChanIds == 1..(MaxOuts + 1)

\* the instants at which the clock is read
Times == {0, 30, 600, 2000}
\* arguments of the SetPressDurations calls made while the recognizer runs:
\* the defaults, thresholds equal to differences of Times (the calls that are
\* refused are those of ConfigDurs and ConfigDebs below)
PressArgs == {<<22, 500, 1971>>, <<30, 600, 2000>>}
\* arguments of the SetDebounceDuration calls made while the recognizer runs
DebArgs == {30}

\* arguments of SetPressDurations when the setters are checked on their own
ConfigDurs == {-5, 0, 22, 500, 1971}
\* arguments of SetDebounceDuration when the setters are checked on their own
ConfigDebs == {0, 9, 10, 11, 21, 29, 30, 31, 500}
\* clock readings of the two edges of a press when recognize is checked on
\* its own; their differences include every threshold of ConfigDurs and the
\* value just below it
RecTimes == {0, 1, 5, 6, 22, 500, 1971, 1972}

----------------------------------------------------------------------------
\* Program constants

Debounce == 0
ShortPress == 1
LongPress == 2
ExtraLongPress == 3
PressLengths == {Debounce, ShortPress, LongPress, ExtraLongPress}

NoErr == "nil"
ERROR_DEBOUNCE_TOO_SHORT == "Debounces should probably be greater than 10ms"
ERROR_DEBOUNCE_TOO_LONG == "Debounces should probably be shorter than 30ms"
ERROR_TIMES_MUST_ASCEND == "Button press intervals must ascend in duration (sp, lp, elp)"
ERROR_NO_OUTPUT_CHANNELS == "New bouncer wasn't given any output channels"

DefaultDebounce == 21
DefaultShortPress == 22
DefaultLongPress == 500
DefaultExtraLongPress == 1971
MinDebounce == 10
MaxDebounce == 30

\* time.Time{}: the zero time, earlier than every clock reading
ZeroTime == -1

----------------------------------------------------------------------------
\* recognize (pure part): the PressLength of duration d under thresholds sp, lp, elp

\* recognize with strict comparisons: a duration equal to a threshold falls
\* into the class below
recognizeWith_Strict(d, sp, lp, elp) ==
    IF d > elp THEN ExtraLongPress
    ELSE IF d <= elp /\ d > lp THEN LongPress
    ELSE IF d <= lp /\ d > sp THEN ShortPress
    ELSE Debounce

recognizeWith(d, sp, lp, elp) ==
    IF d >= elp THEN ExtraLongPress
    ELSE IF d < elp /\ d >= lp THEN LongPress
    ELSE IF d < lp /\ d >= sp THEN ShortPress
    ELSE Debounce

\* button.recognize: reads the button's current thresholds
recognize(d) == recognizeWith(d, shortPress, longPress, extraLongPress)

\* the subtraction with its operands swapped
Sub_Reversed(t, u) == u - t

\* tr.t.Sub(btnDown)
Sub(t, u) == t - u

\* a Go int: the value of n in two's complement on IntWidth bits
WrapInt(n) == ((n + 2^(IntWidth - 1)) % 2^IntWidth) - 2^(IntWidth - 1)

----------------------------------------------------------------------------
\* the finer-grained runs are not under way
AuxInit ==
    /\ setPc = "idle"
    /\ setArgs = <<>>
    /\ recPc = "idle"
    /\ recD = 0
    /\ pubLog = <<>>
    /\ sentLog = <<>>
    /\ run = 0
    /\ edges = <<>>
    /\ sched = <<>>
    /\ obs = <<>>
    /\ pos = 0

Init ==
    /\ constructed = FALSE
    /\ debounceInterval = 0
    /\ shortPress = 0
    /\ longPress = 0
    /\ extraLongPress = 0
    /\ err = NoErr
    /\ now = 0
    /\ isrChan = <<>>
    /\ outChans = <<>>
    /\ ticks = 0
    /\ btnDown = ZeroTime
    /\ pc = "select"
    /\ i = 0
    /\ p = Debounce
    /\ tickSeen = 0
    /\ AuxInit
    /\ outIds = <<>>
    /\ outsArg = <<>>
    /\ downAt = ZeroTime
    /\ downs = 0

\* the slice built back to front
copyOuts_Reversed(outs) == [k \in 1..Len(outs) |-> outs[Len(outs) + 1 - k]]

\* New: the loop of lines 94-96, which appends outs[i] for each i in turn
copyOuts(outs) == [k \in 1..Len(outs) |-> outs[k]]

\* New(p, q, name, isrChan, outs...): outs is a sequence of distinct channels,
\* all of them empty
NewOuts(outs) ==
    /\ ~constructed
    /\ outsArg' = <<outs>>
    /\ IF Len(outs) < 1
       THEN /\ err' = ERROR_NO_OUTPUT_CHANNELS
            /\ UNCHANGED <<constructed, cfgVars, outChans, outIds>>
       ELSE /\ constructed' = TRUE
            /\ debounceInterval' = DefaultDebounce
            /\ shortPress' = DefaultShortPress
            /\ longPress' = DefaultLongPress
            /\ extraLongPress' = DefaultExtraLongPress
            /\ outIds' = copyOuts(outs)
            /\ outChans' = [k \in 1..Len(outs) |-> <<>>]
            /\ err' = NoErr
    /\ UNCHANGED <<now, isrChan, recVars>>
    /\ UNCHANGED <<raceVars, logVars, downVars, twinVars>>

\* New with the first n channels as outs
New(n) == NewOuts([k \in 1..n |-> k])

\* the clock advances
Advance ==
    /\ \E t \in Times : t > now /\ now' = t
    /\ UNCHANGED <<constructed, cfgVars, err, isrChan, outChans, recVars>>
    /\ UNCHANGED auxVars

\* HandlePin: samples the clock and the pin (s: the level read by pin.Get()) and
\* sends the Bounce to isrChan. With the buffer full the send blocks: the Bounce
\* waits behind the buffer until a receive makes room, and no further
\* HandlePin runs meanwhile
HandlePin(s) ==
    /\ constructed
    /\ Len(isrChan) <= IsrCap
    /\ isrChan' = Append(isrChan, [t |-> now, s |-> s])
    /\ UNCHANGED <<constructed, cfgVars, err, now, outChans, recVars>>
    /\ UNCHANGED auxVars

\* ticks counted whether or not a press is under way
notListening_Never(n) == FALSE

\* the test of line 149 on ticks: "we aren't listening"
notListening(n) == n = 0

\* RecognizeAndPublish, case <-tickerCh: what it does to the button and to
\* the locals. ticks is a Go int, so ticks += 1 wraps; the history tickSeen is
\* kept up to 2^IntWidth
tickerCase ==
    /\ constructed
    /\ pc = "select"
    /\ IF notListening(ticks)
       THEN btnDown' = ZeroTime /\ UNCHANGED <<ticks, tickSeen>>
       ELSE /\ ticks' = WrapInt(ticks + 1)
            /\ tickSeen' = IF tickSeen < 2^IntWidth THEN tickSeen + 1 ELSE tickSeen
            /\ btnDown' = btnDown
    /\ UNCHANGED <<constructed, cfgVars, err, now, isrChan, outChans, pc, i, p>>

\* RecognizeAndPublish, case <-tickerCh, for the first MaxTicks - 1 ticks of a
\* press
RecognizeTick ==
    /\ ticks < MaxTicks
    /\ tickerCase
    /\ UNCHANGED auxVars

\* the first up-edge accepted whatever the ticks
debounced_AcceptFirstUp(n) == n >= 1

\* one more tick demanded before an up-edge is accepted
debounced_TwoTicks(n) == n >= 3

\* the ticks demanded grow with the debounce interval set
debounced_ByInterval(n) == n * MinDebounce >= debounceInterval

\* the test of line 167 on ticks
debounced(n) == n >= 2

\* an up-edge that comes too early abandons the press
BounceUp_AbortOnBounce(tr) ==
    IF ticks = 0
    THEN UNCHANGED recVars
    ELSE IF ticks >= 2
         THEN LET dur == Sub(tr.t, btnDown)
              IN /\ ticks' = 0
                 /\ btnDown' = ZeroTime
                 /\ p' = recognize(dur)
                 /\ i' = 1
                 /\ pc' = "publish"
                 /\ tickSeen' = 0
         ELSE /\ ticks' = 0
              /\ btnDown' = ZeroTime
              /\ tickSeen' = 0
              /\ UNCHANGED <<pc, i, p>>

\* RecognizeAndPublish, case tr := <-b.isrChan, case true (button is 'up'),
\* up to the call of publish
BounceUp(tr) ==
    IF ticks = 0
    THEN UNCHANGED recVars
    ELSE IF debounced(ticks)
         THEN LET dur == Sub(tr.t, btnDown)
              IN /\ ticks' = 0
                 /\ btnDown' = ZeroTime
                 /\ p' = recognize(dur)
                 /\ i' = 1
                 /\ pc' = "publish"
                 /\ tickSeen' = 0
         ELSE UNCHANGED recVars

\* every down-edge restarts the press
BounceDown_Restart(tr) ==
    /\ ticks' = 1
    /\ btnDown' = tr.t
    /\ tickSeen' = 0
    /\ UNCHANGED <<pc, i, p>>

\* RecognizeAndPublish, case tr := <-b.isrChan, case false (button is 'down')
BounceDown(tr) ==
    IF ticks = 0
    THEN /\ ticks' = 1
         /\ btnDown' = tr.t
         /\ tickSeen' = 0
         /\ UNCHANGED <<pc, i, p>>
    ELSE UNCHANGED recVars

\* RecognizeAndPublish, case tr := <-b.isrChan: what it does to the button
\* and to the locals
isrCase ==
    /\ constructed
    /\ pc = "select"
    /\ isrChan # <<>>
    /\ LET tr == Head(isrChan)
       IN /\ isrChan' = Tail(isrChan)
          /\ IF tr.s THEN BounceUp(tr) ELSE BounceDown(tr)
    /\ UNCHANGED <<constructed, cfgVars, err, now, outChans>>

\* the record of the receive from isrChan: a down-edge taken with ticks = 0
\* begins a press, a call of publish ends it
isrHistory ==
    LET tr == Head(isrChan)
    IN IF ~tr.s /\ ticks = 0
       THEN /\ downAt' = tr.t
            /\ downs' = IF downs < MaxDowns THEN downs + 1 ELSE downs
       ELSE IF pc' = "publish"
            THEN downAt' = ZeroTime /\ downs' = 0
            ELSE UNCHANGED downVars

\* RecognizeAndPublish, case tr := <-b.isrChan
RecognizeBounce ==
    /\ isrCase
    /\ isrHistory
    /\ UNCHANGED <<raceVars, subVars, logVars, twinVars>>

\* a full channel is skipped instead of waited for
publishSend_DropIfFull ==
    /\ pc = "publish"
    /\ outChans' = [outChans EXCEPT
                      ![i] = IF Len(@) < OutCap THEN Append(@, p) ELSE @]
    /\ IF i = Len(outChans)
       THEN pc' = "select" /\ i' = 0 /\ p' = Debounce
       ELSE pc' = pc /\ i' = i + 1 /\ p' = p
    /\ UNCHANGED <<constructed, cfgVars, err, now, isrChan, ticks, btnDown, tickSeen>>

\* publish: one iteration of the loop, the send b.outChans[i] <- p, which blocks
\* while that channel's buffer is full; after the last one the loop of
\* RecognizeAndPublish is back at its select
publishSend ==
    /\ pc = "publish"
    /\ Len(outChans[i]) < OutCap
    /\ outChans' = [outChans EXCEPT ![i] = Append(@, p)]
    /\ IF i = Len(outChans)
       THEN pc' = "select" /\ i' = 0 /\ p' = Debounce
       ELSE pc' = pc /\ i' = i + 1 /\ p' = p
    /\ UNCHANGED <<constructed, cfgVars, err, now, isrChan, ticks, btnDown, tickSeen>>

\* publish, a send at a time
publish ==
    /\ publishSend
    /\ UNCHANGED auxVars

\* a subscriber receives from output channel k
Subscriber(k) ==
    /\ k \in 1..Len(outChans)
    /\ outChans[k] # <<>>
    /\ outChans' = [outChans EXCEPT ![k] = Tail(@)]
    /\ UNCHANGED <<constructed, cfgVars, err, now, isrChan, recVars>>
    /\ UNCHANGED auxVars

\* the bounds themselves refused
SetDebounceDuration_Exclusive(t) ==
    /\ constructed
    /\ IF t <= MinDebounce
       THEN err' = ERROR_DEBOUNCE_TOO_SHORT /\ debounceInterval' = debounceInterval
       ELSE IF t >= MaxDebounce
            THEN err' = ERROR_DEBOUNCE_TOO_LONG /\ debounceInterval' = debounceInterval
            ELSE debounceInterval' = t /\ err' = NoErr
    /\ UNCHANGED <<constructed, shortPress, longPress, extraLongPress,
                   now, isrChan, outChans, recVars>>
    /\ UNCHANGED auxVars

\* the upper bound not tested
SetDebounceDuration_NoUpper(t) ==
    /\ constructed
    /\ IF t < MinDebounce
       THEN err' = ERROR_DEBOUNCE_TOO_SHORT /\ debounceInterval' = debounceInterval
       ELSE debounceInterval' = t /\ err' = NoErr
    /\ UNCHANGED <<constructed, shortPress, longPress, extraLongPress,
                   now, isrChan, outChans, recVars>>
    /\ UNCHANGED auxVars

\* SetDebounceDuration(t)
SetDebounceDuration(t) ==
    /\ constructed
    /\ IF t < MinDebounce
       THEN err' = ERROR_DEBOUNCE_TOO_SHORT /\ debounceInterval' = debounceInterval
       ELSE IF t > MaxDebounce
            THEN err' = ERROR_DEBOUNCE_TOO_LONG /\ debounceInterval' = debounceInterval
            ELSE debounceInterval' = t /\ err' = NoErr
    /\ UNCHANGED <<constructed, shortPress, longPress, extraLongPress,
                   now, isrChan, outChans, recVars>>
    /\ UNCHANGED auxVars

\* longPress and extraLongPress not compared
SetPressDurations_TwoChecks(sp, lp, elp) ==
    /\ constructed
    /\ IF sp > lp \/ sp > elp
       THEN err' = ERROR_TIMES_MUST_ASCEND
            /\ UNCHANGED <<shortPress, longPress, extraLongPress>>
       ELSE /\ shortPress' = sp
            /\ longPress' = lp
            /\ extraLongPress' = elp
            /\ err' = NoErr
    /\ UNCHANGED <<constructed, debounceInterval, now, isrChan, outChans, recVars>>
    /\ UNCHANGED auxVars

\* SetPressDurations(sp, lp, elp)
SetPressDurations(sp, lp, elp) ==
    /\ constructed
    /\ IF sp > lp \/ sp > elp \/ lp > elp
       THEN err' = ERROR_TIMES_MUST_ASCEND
            /\ UNCHANGED <<shortPress, longPress, extraLongPress>>
       ELSE /\ shortPress' = sp
            /\ longPress' = lp
            /\ extraLongPress' = elp
            /\ err' = NoErr
    /\ UNCHANGED <<constructed, debounceInterval, now, isrChan, outChans, recVars>>
    /\ UNCHANGED auxVars

Next ==
    \/ \E n \in 0..MaxOuts : New(n)
    \/ Advance
    \/ \E s \in BOOLEAN : HandlePin(s)
    \/ RecognizeTick
    \/ RecognizeBounce
    \/ publish
    \/ \E k \in 1..MaxOuts : Subscriber(k)
    \/ \E t \in DebArgs : SetDebounceDuration(t)
    \/ \E a \in PressArgs : SetPressDurations(a[1], a[2], a[3])

Spec == Init /\ [][Next]_vars

----------------------------------------------------------------------------
\* The setters on their own: New and any sequence of Set... calls

NextConfig ==
    \/ \E n \in 0..MaxOuts : New(n)
    \/ \E t \in ConfigDebs : SetDebounceDuration(t)
    \/ \E sp, lp, elp \in ConfigDurs : SetPressDurations(sp, lp, elp)

SpecConfig == Init /\ [][NextConfig]_vars

----------------------------------------------------------------------------
\* The recognizer fed with ticks only: no HandlePin ever runs

NextTicks ==
    \/ \E n \in 0..MaxOuts : New(n)
    \/ Advance
    \/ RecognizeTick
    \/ \E t \in ConfigDebs : SetDebounceDuration(t)
    \/ \E sp, lp, elp \in ConfigDurs : SetPressDurations(sp, lp, elp)

SpecTicks == Init /\ [][NextTicks]_vars

----------------------------------------------------------------------------
\* recognize on its own: the recognizer awaits the up-edge of a press, with
\* any ascending thresholds and any clock readings of the two edges (the
\* up-edge may carry the earlier reading, which makes the duration negative)

InitRecognize ==
    /\ constructed = TRUE
    /\ debounceInterval = DefaultDebounce
    /\ \E sp, lp, elp \in ConfigDurs :
          /\ sp <= lp /\ lp <= elp
          /\ shortPress = sp /\ longPress = lp /\ extraLongPress = elp
    /\ err = NoErr
    /\ now \in RecTimes
    /\ \E t \in RecTimes : isrChan = <<[t |-> t, s |-> TRUE]>>
    /\ outChans = <<<<>>>>
    /\ ticks = 2
    /\ btnDown \in RecTimes
    /\ pc = "select"
    /\ i = 0
    /\ p = Debounce
    /\ tickSeen = 1
    /\ AuxInit
    /\ outIds = <<1>>
    /\ outsArg = <<outIds>>
    /\ downAt = btnDown
    /\ downs = 1

NextRecognize ==
    \/ RecognizeBounce
    \/ publish
    \/ Subscriber(1)

SpecRecognize == InitRecognize /\ [][NextRecognize]_vars

----------------------------------------------------------------------------
\* SetPressDurations and recognize field by field. Neither takes a lock, so a
\* call of SetPressDurations made from another goroutine or from an interrupt
\* handler interleaves its three field writes with the field reads of a
\* recognize under way; each write and each read is one step.

\* arguments of the one SetPressDurations call made during the classification
RaceArgs == {<<5, 10, 20>>, <<30, 600, 2000>>, <<700, 800, 900>>, <<500, 22, 1971>>}

\* the recognizer is about to consume the up-edge of a press that began at 0,
\* under the thresholds set by New
InitRace ==
    /\ constructed = TRUE
    /\ debounceInterval = DefaultDebounce
    /\ shortPress = DefaultShortPress
    /\ longPress = DefaultLongPress
    /\ extraLongPress = DefaultExtraLongPress
    /\ err = NoErr
    /\ now = 2000
    /\ \E t \in Times : isrChan = <<[t |-> t, s |-> TRUE]>>
    /\ outChans = <<<<>>>>
    /\ ticks = 2
    /\ btnDown = 0
    /\ pc = "select"
    /\ i = 0
    /\ p = Debounce
    /\ tickSeen = 1
    /\ AuxInit
    /\ outIds = <<1>>
    /\ outsArg = <<outIds>>
    /\ downAt = btnDown
    /\ downs = 1

\* SetPressDurations(sp, lp, elp): the test of line 213 and, when it passes,
\* the write of line 216
SetPressDurationsBegin(sp, lp, elp) ==
    /\ constructed
    /\ setPc = "idle"
    /\ setArgs' = <<sp, lp, elp>>
    /\ IF sp > lp \/ sp > elp \/ lp > elp
       THEN /\ err' = ERROR_TIMES_MUST_ASCEND
            /\ setPc' = "done"
            /\ UNCHANGED shortPress
       ELSE /\ shortPress' = sp
            /\ setPc' = "lp"
            /\ UNCHANGED err
    /\ UNCHANGED <<constructed, debounceInterval, longPress, extraLongPress,
                   now, isrChan, outChans, recVars, recPc, recD, subVars, logVars, downVars, twinVars>>

\* SetPressDurations: the write of line 217
SetPressDurationsLong ==
    /\ setPc = "lp"
    /\ longPress' = setArgs[2]
    /\ setPc' = "elp"
    /\ UNCHANGED <<constructed, debounceInterval, shortPress, extraLongPress, err,
                   now, isrChan, outChans, recVars, setArgs, recPc, recD, subVars, logVars, downVars, twinVars>>

\* SetPressDurations: the write of line 218 and the return
SetPressDurationsExtraLong ==
    /\ setPc = "elp"
    /\ extraLongPress' = setArgs[3]
    /\ err' = NoErr
    /\ setPc' = "done"
    /\ UNCHANGED <<constructed, debounceInterval, shortPress, longPress,
                   now, isrChan, outChans, recVars, setArgs, recPc, recD, subVars, logVars, downVars, twinVars>>

\* RecognizeAndPublish consumes an up-edge with ticks >= 2 (lines 167-175) and
\* enters recognize with the duration
RecognizeBounceEnter ==
    /\ constructed
    /\ pc = "select"
    /\ isrChan # <<>>
    /\ Head(isrChan).s
    /\ debounced(ticks)
    /\ recD' = Sub(Head(isrChan).t, btnDown)
    /\ isrChan' = Tail(isrChan)
    /\ ticks' = 0
    /\ btnDown' = ZeroTime
    /\ tickSeen' = 0
    /\ pc' = "recognize"
    /\ recPc' = "elp"
    /\ downAt' = ZeroTime
    /\ downs' = 0
    /\ UNCHANGED <<constructed, cfgVars, err, now, outChans, i, p,
                   setPc, setArgs, subVars, logVars, twinVars>>

\* recognize returns c to RecognizeAndPublish, which calls publish with it
recognizeReturn(c) ==
    /\ p' = c
    /\ i' = 1
    /\ pc' = "publish"
    /\ recPc' = "idle"

\* recognize: one comparison, reading one field of the button.
\* "elp": d >= b.extraLongPress (line 299); "elp2", "lp": d < b.extraLongPress
\* && d >= b.longPress (line 304); "lp2", "sp": d < b.longPress &&
\* d >= b.shortPress (line 309)
recognizeStep ==
    /\ pc = "recognize"
    /\ CASE recPc = "elp" ->
              IF recD >= extraLongPress
              THEN recognizeReturn(ExtraLongPress)
              ELSE recPc' = "elp2" /\ UNCHANGED <<pc, i, p>>
         [] recPc = "elp2" ->
              /\ recPc' = IF recD < extraLongPress THEN "lp" ELSE "lp2"
              /\ UNCHANGED <<pc, i, p>>
         [] recPc = "lp" ->
              IF recD >= longPress
              THEN recognizeReturn(LongPress)
              ELSE recPc' = "lp2" /\ UNCHANGED <<pc, i, p>>
         [] recPc = "lp2" ->
              IF recD < longPress
              THEN recPc' = "sp" /\ UNCHANGED <<pc, i, p>>
              ELSE recognizeReturn(Debounce)
         [] recPc = "sp" ->
              IF recD >= shortPress
              THEN recognizeReturn(ShortPress)
              ELSE recognizeReturn(Debounce)
    /\ UNCHANGED <<constructed, cfgVars, err, now, isrChan, outChans,
                   ticks, btnDown, tickSeen, setPc, setArgs, recD, subVars, logVars, downVars, twinVars>>

NextRace ==
    \/ \E a \in RaceArgs : SetPressDurationsBegin(a[1], a[2], a[3])
    \/ SetPressDurationsLong
    \/ SetPressDurationsExtraLong
    \/ RecognizeBounceEnter
    \/ recognizeStep
    \/ publish
    \/ Subscriber(1)

SpecRace == InitRace /\ [][NextRace]_vars

----------------------------------------------------------------------------
\* New with any channels, in any order, and every operation after it; the
\* clock stands still

\* the outs a caller may pass: up to MaxOuts distinct channels
OutsArgs ==
    UNION {{outs \in [1..n -> ChanIds] :
               \A j, k \in 1..n : j # k => outs[j] # outs[k]} : n \in 0..MaxOuts}

NextNew ==
    \/ \E outs \in OutsArgs : NewOuts(outs)
    \/ \E s \in BOOLEAN : HandlePin(s)
    \/ RecognizeTick
    \/ RecognizeBounce
    \/ publish
    \/ \E k \in 1..MaxOuts : Subscriber(k)
    \/ \E t \in DebArgs : SetDebounceDuration(t)
    \/ \E a \in PressArgs : SetPressDurations(a[1], a[2], a[3])

SpecNew == Init /\ [][NextNew]_vars

----------------------------------------------------------------------------
\* A stalled subscriber: nothing ever receives from the first output channel

NextStall ==
    \/ \E n \in 0..MaxOuts : New(n)
    \/ Advance
    \/ \E s \in BOOLEAN : HandlePin(s)
    \/ RecognizeTick
    \/ RecognizeBounce
    \/ publish
    \/ \E k \in 2..MaxOuts : Subscriber(k)
    \/ \E t \in DebArgs : SetDebounceDuration(t)
    \/ \E a \in PressArgs : SetPressDurations(a[1], a[2], a[3])

SpecStall == Init /\ [][NextStall]_vars

----------------------------------------------------------------------------
\* The order of the publications: every call of publish and every send of it
\* is recorded, for the first MaxPresses presses

\* RecognizeAndPublish, case tr := <-b.isrChan, with the call of publish recorded
RecognizeBounceLogged ==
    /\ Len(pubLog) < MaxPresses
    /\ isrCase
    /\ isrHistory
    /\ pubLog' = IF pc' = "publish" THEN Append(pubLog, p') ELSE pubLog
    /\ UNCHANGED <<raceVars, subVars, sentLog, twinVars>>

\* publish, a send at a time, with the send recorded
publishLogged ==
    /\ publishSend
    /\ sentLog' = IF outChans'[i] # outChans[i]
                  THEN Append(sentLog, <<i, p>>)
                  ELSE sentLog
    /\ UNCHANGED <<raceVars, subVars, pubLog, downVars, twinVars>>

NextOrder ==
    \/ \E n \in 0..MaxOuts : New(n)
    \/ Advance
    \/ \E s \in BOOLEAN : HandlePin(s)
    \/ RecognizeTick
    \/ RecognizeBounceLogged
    \/ publishLogged
    \/ \E k \in 1..MaxOuts : Subscriber(k)

SpecOrder == Init /\ [][NextOrder]_vars

----------------------------------------------------------------------------
\* A button held down for as long as it takes: the ticks of a press are
\* counted without limit, in the Go int that holds them; the clock stands still

\* RecognizeAndPublish, case <-tickerCh
RecognizeTickWrapping ==
    /\ tickerCase
    /\ UNCHANGED auxVars

NextOverflow ==
    \/ \E n \in 0..MaxOuts : New(n)
    \/ \E s \in BOOLEAN : HandlePin(s)
    \/ RecognizeTickWrapping
    \/ RecognizeBounce
    \/ publish
    \/ \E k \in 1..MaxOuts : Subscriber(k)

SpecOverflow == Init /\ [][NextOverflow]_vars

----------------------------------------------------------------------------
\* Two buttons that differ in their debounce interval only. The first button
\* receives some edges and its recognizer goes through some events; then a
\* second button, made by New like the first, receives the same edges and its
\* recognizer goes through the same events in the same order. The first button
\* keeps the debounce interval New gave it; the second is given any
\* SetDebounceDuration calls at any points, so that any two buttons given such
\* calls are each compared with the first. Nothing receives from the output
\* channel meanwhile.

\* the instants the edges may carry
EdgeTimes == {0, 30, 600}

\* the edges the two buttons may receive: up to MaxEdges of them, in the order
\* of their times
EdgeSeqs ==
    UNION {{e \in [1..n -> [t : EdgeTimes, s : BOOLEAN]] :
               \A k \in 1..(n - 1) : e[k].t <= e[k + 1].t} : n \in 1..MaxEdges}

\* the debounce intervals set on either button
TwinDebs == {9, 10, 30}

\* what is compared: the locals of RecognizeAndPublish and of publish, the edges
\* still to come and what was sent to the output channel
Observed == <<ticks, btnDown, pc, i, p, isrChan, outChans>>

\* the first button after New, with its edges in isrChan
InitTwin ==
    /\ constructed = TRUE
    /\ debounceInterval = DefaultDebounce
    /\ shortPress = DefaultShortPress
    /\ longPress = DefaultLongPress
    /\ extraLongPress = DefaultExtraLongPress
    /\ err = NoErr
    /\ now = 0
    /\ isrChan \in EdgeSeqs
    /\ outChans = <<<<>>>>
    /\ ticks = 0
    /\ btnDown = ZeroTime
    /\ pc = "select"
    /\ i = 0
    /\ p = Debounce
    /\ tickSeen = 0
    /\ setPc = "idle"
    /\ setArgs = <<>>
    /\ recPc = "idle"
    /\ recD = 0
    /\ pubLog = <<>>
    /\ sentLog = <<>>
    /\ outIds = <<1>>
    /\ outsArg = <<outIds>>
    /\ downAt = ZeroTime
    /\ downs = 0
    /\ run = 1
    /\ edges = isrChan
    /\ sched = <<>>
    /\ obs = <<>>
    /\ pos = 0

\* event e is the next one: any event for the first button, the one the first
\* button went through at this point for the second
TwinNext(e) ==
    IF run = 1
    THEN Len(sched) < MaxEvents
    ELSE pos < Len(sched) /\ sched[pos + 1] = e

\* the event is recorded for the first button, counted for the second
TwinDone(e) ==
    /\ IF run = 1
       THEN /\ sched' = Append(sched, e)
            /\ obs' = Append(obs, Observed')
            /\ pos' = pos
       ELSE /\ pos' = pos + 1
            /\ UNCHANGED <<sched, obs>>
    /\ UNCHANGED <<run, edges>>

\* RecognizeAndPublish, case <-tickerCh
TwinTick ==
    /\ TwinNext("tick")
    /\ ticks < MaxTicks
    /\ tickerCase
    /\ TwinDone("tick")
    /\ UNCHANGED <<raceVars, subVars, logVars, downVars>>

\* RecognizeAndPublish, case tr := <-b.isrChan
TwinBounce ==
    /\ TwinNext("isr")
    /\ isrCase
    /\ isrHistory
    /\ TwinDone("isr")
    /\ UNCHANGED <<raceVars, subVars, logVars>>

\* publish, a send at a time
TwinPublish ==
    /\ TwinNext("send")
    /\ publishSend
    /\ TwinDone("send")
    /\ UNCHANGED <<raceVars, subVars, logVars, downVars>>

\* the second button: New again, and the same edges
TwinNew ==
    /\ run = 1
    /\ sched # <<>>
    /\ run' = 2
    /\ debounceInterval' = DefaultDebounce
    /\ shortPress' = DefaultShortPress
    /\ longPress' = DefaultLongPress
    /\ extraLongPress' = DefaultExtraLongPress
    /\ err' = NoErr
    /\ isrChan' = edges
    /\ outChans' = <<<<>>>>
    /\ ticks' = 0
    /\ btnDown' = ZeroTime
    /\ pc' = "select"
    /\ i' = 0
    /\ p' = Debounce
    /\ tickSeen' = 0
    /\ downAt' = ZeroTime
    /\ downs' = 0
    /\ UNCHANGED <<constructed, now, raceVars, subVars, logVars, edges, sched, obs, pos>>

\* SetDebounceDuration(t) on the second button
TwinSetDebounceDuration(t) ==
    /\ run = 2
    /\ SetDebounceDuration(t)

NextTwin ==
    \/ TwinTick
    \/ TwinBounce
    \/ TwinPublish
    \/ TwinNew
    \/ \E t \in TwinDebs : TwinSetDebounceDuration(t)

SpecTwin == InitTwin /\ [][NextTwin]_vars

----------------------------------------------------------------------------
\* Vocabulary of the properties

\* the classes whose defining condition duration d meets
ClassSet(d, sp, lp, elp) ==
    {c \in PressLengths :
        \/ c = Debounce /\ d < sp
        \/ c = ShortPress /\ sp <= d /\ d < lp
        \/ c = LongPress /\ lp <= d /\ d < elp
        \/ c = ExtraLongPress /\ d >= elp}

\* a step in which the recognizer receives the Bounce at the head of isrChan
ConsumesBounce == pc = "select" /\ isrChan # <<>> /\ isrChan' = Tail(isrChan)
ConsumesUp == ConsumesBounce /\ Head(isrChan).s
ConsumesDown == ConsumesBounce /\ ~Head(isrChan).s
\* a step in which the recognizer calls publish
CallsPublish == pc = "select" /\ pc' = "publish"
\* a step in which a subscriber receives from output channel k
Received(k) == outChans[k] # <<>> /\ outChans' = [outChans EXCEPT ![k] = Tail(@)]
Idle == ticks = 0
AwaitingUp == ticks >= 1
DefaultThresholds ==
    /\ shortPress = DefaultShortPress
    /\ longPress = DefaultLongPress
    /\ extraLongPress = DefaultExtraLongPress

----------------------------------------------------------------------------
\* C1: the recognizer calls publish exactly in the steps that consume an
\* up-edge with ticks >= 2; such a step hands publish the one class of
\* (up-edge time - btnDown) under the current thresholds and leaves ticks = 0
\* and btnDown cleared; apart from subscribers receiving, the output channels
\* change only inside that call, one send at a time, of the class handed over.
C1_PublishIffAcceptedUp ==
    [][/\ CallsPublish <=> (pc = "select" /\ ticks >= 2 /\ ConsumesUp)
       /\ CallsPublish =>
            /\ ClassSet(Head(isrChan).t - btnDown,
                        shortPress, longPress, extraLongPress) = {p'}
            /\ i' = 1
            /\ ticks' = 0
            /\ btnDown' = ZeroTime
       /\ (constructed /\ outChans' # outChans) =>
            \/ \E k \in DOMAIN outChans : Received(k)
            \/ /\ pc = "publish"
               /\ outChans' = [outChans EXCEPT ![i] = Append(@, p)]
      ]_vars

\* an accepted up-edge has been consumed: publish is starting with a LongPress
C1_Witness ==
    pc = "publish" /\ i = 1 /\ p = LongPress /\ ticks = 0 /\ btnDown = ZeroTime

\* C2: an up-edge consumed when no tick has been consumed since the down-edge
\* that left IDLE finds ticks = 1 and is ignored: publish is not called, no
\* channel is sent anything, ticks and btnDown keep their values and the
\* recognizer still awaits an up-edge.
C2_EarlyUpIgnored ==
    [][(ConsumesUp /\ AwaitingUp /\ tickSeen = 0) =>
            /\ ticks = 1
            /\ UNCHANGED <<ticks, btnDown, pc, i, p, outChans>>
            /\ AwaitingUp'
      ]_vars

\* the recognizer is about to consume an up-edge right after the down-edge
C2_Witness ==
    /\ pc = "select" /\ ticks = 1 /\ tickSeen = 0 /\ btnDown = 0
    /\ isrChan # <<>> /\ Head(isrChan).s /\ Head(isrChan).t = 30
    /\ ENABLED RecognizeBounce

\* C3: with ticks as the only input the recognizer stays IDLE (ticks = 0,
\* btnDown empty), never calls publish and no output channel is sent anything.
C3_TicksOnlyStayIdle ==
    /\ ticks = 0
    /\ btnDown = ZeroTime
    /\ pc = "select"
    /\ \A k \in DOMAIN outChans : outChans[k] = <<>>

\* a constructed button whose recognizer can consume a tick, late on the clock
C3_Witness == constructed /\ now = 2000 /\ ENABLED RecognizeTick

\* C4: a down-edge consumed while awaiting the up-edge changes nothing of the
\* recognizer (ticks, btnDown, its position) and sends nothing.
C4_SecondDownNoOp ==
    [][(ConsumesDown /\ AwaitingUp) => UNCHANGED <<recVars, outChans>>]_vars

\* the recognizer is about to consume a later down-edge while awaiting the up-edge
C4_Witness ==
    /\ pc = "select" /\ AwaitingUp /\ isrChan # <<>>
    /\ ~Head(isrChan).s /\ Head(isrChan).t > btnDown
    /\ ENABLED RecognizeBounce

\* C5: for ascending thresholds and any duration d, negative ones included,
\* exactly one of d < sp, sp <= d < lp, lp <= d < elp, d >= elp holds and
\* recognize returns its class: Debounce, ShortPress, LongPress,
\* ExtraLongPress.
C5_RecognizeClasses ==
    [][CallsPublish =>
            ClassSet(Head(isrChan).t - btnDown,
                     shortPress, longPress, extraLongPress) = {p'}
      ]_vars

\* recognize has returned Debounce for a duration below a negative shortPress
C5_Witness ==
    pc = "publish" /\ p = Debounce /\ shortPress = -5 /\ longPress = 0

\* C6: with the default thresholds, a down-edge stamped 0, two ticks and then
\* an up-edge make the recognizer call publish once, with ShortPress when the
\* up-edge is stamped 30, LongPress when 600, ExtraLongPress when 2000.
C6_DefaultScenarios ==
    [][(ConsumesUp /\ DefaultThresholds /\ btnDown = 0 /\ tickSeen = 2) =>
            /\ CallsPublish
            /\ i' = 1
            /\ Head(isrChan).t = 30 => p' = ShortPress
            /\ Head(isrChan).t = 600 => p' = LongPress
            /\ Head(isrChan).t = 2000 => p' = ExtraLongPress
      ]_vars

\* publish is starting with an ExtraLongPress under the default thresholds
C6_Witness ==
    /\ pc = "publish" /\ i = 1 /\ p = ExtraLongPress
    /\ DefaultThresholds /\ now = 2000 /\ err = NoErr

C8_SetPressDurations ==
    [][\A sp, lp, elp \in ConfigDurs :
          SetPressDurations(sp, lp, elp) =>
            IF sp <= lp /\ lp <= elp
            THEN /\ err' = NoErr
                 /\ shortPress' = sp
                 /\ longPress' = lp
                 /\ extraLongPress' = elp
                 /\ debounceInterval' = debounceInterval
            ELSE /\ err' = ERROR_TIMES_MUST_ASCEND
                 /\ UNCHANGED cfgVars
      ]_vars

\* a call with three equal values has succeeded and a later call has failed
C8_Witness ==
    /\ err = ERROR_TIMES_MUST_ASCEND
    /\ shortPress = 500 /\ longPress = 500 /\ extraLongPress = 500

\* C9: SetDebounceDuration(t) with 10 <= t <= 30 returns no error and sets
\* debounceInterval to t; otherwise it returns an error and leaves it.
C9_SetDebounceDuration ==
    [][\A t \in ConfigDebs :
          SetDebounceDuration(t) =>
            IF MinDebounce <= t /\ t <= MaxDebounce
            THEN err' = NoErr /\ debounceInterval' = t
            ELSE /\ err' \in {ERROR_DEBOUNCE_TOO_SHORT, ERROR_DEBOUNCE_TOO_LONG}
                 /\ debounceInterval' = debounceInterval
      ]_vars

\* a call with the bound 30 has succeeded and a later call has failed
C9_Witness == err = ERROR_DEBOUNCE_TOO_LONG /\ debounceInterval = MaxDebounce

\* C10: after New, whatever Set... calls are made, 10 <= debounceInterval <= 30
\* and shortPress <= longPress <= extraLongPress.
C10_ThresholdInvariant ==
    constructed =>
        /\ MinDebounce <= debounceInterval /\ debounceInterval <= MaxDebounce
        /\ shortPress <= longPress /\ longPress <= extraLongPress

\* both setters have succeeded and the last call has failed
C10_Witness ==
    /\ constructed /\ err = ERROR_DEBOUNCE_TOO_SHORT
    /\ debounceInterval = MinDebounce
    /\ shortPress = -5 /\ longPress = 22 /\ extraLongPress = 22

\* C11: a SetPressDurations call made while recognize classifies a press
\* leaves the result equal to the class of the duration under the thresholds
\* before the call or under the thresholds of the call, never a third class.
C11_AtomicThresholds ==
    (pc = "publish" /\ i = 1) =>
        \/ p \in ClassSet(recD, DefaultShortPress, DefaultLongPress,
                          DefaultExtraLongPress)
        \/ /\ setPc \in {"lp", "elp", "done"}
           /\ p \in ClassSet(recD, setArgs[1], setArgs[2], setArgs[3])

\* C12: New with zero sinks returns ERROR_NO_OUTPUT_CHANNELS and no button;
\* New with one or more sinks returns a button whose outChans are the sinks
\* passed, in the order passed, and no later operation changes them.
C12_SubscriberSet ==
    /\ outsArg = <<>> => ~constructed /\ outIds = <<>>
    /\ outsArg # <<>> =>
          IF Len(outsArg[1]) = 0
          THEN ~constructed /\ err = ERROR_NO_OUTPUT_CHANNELS /\ outIds = <<>>
          ELSE /\ constructed
               /\ outIds = outsArg[1]
               /\ Len(outChans) = Len(outIds)

\* a button built from two sinks passed in descending order has published to
\* both and been reconfigured
C12_Witness ==
    /\ constructed
    /\ Len(outIds) = 2
    /\ outIds[1] > outIds[2]
    /\ outChans[2] # <<>>
    /\ shortPress # DefaultShortPress

\* C13: HandlePin never blocks: it makes one non-blocking send to isrChan and
\* returns, and with the buffer full the Bounce is dropped, so no HandlePin
\* is ever waiting in its send behind a full buffer.
C13_HandlePinNeverBlocks ==
    Len(isrChan) <= IsrCap

\* C14: a subscriber that never receives cannot stall the recognizer: the
\* loop of RecognizeAndPublish is never left waiting in publish on the send to
\* the output channel nobody receives from, a wait that nothing can end.
C14_StalledSubscriberHarmless ==
    ~(pc = "publish" /\ i = 1 /\ Len(outChans[1]) >= OutCap)

\* the PressLengths sent to output channel k so far, in order
SentTo(k) ==
    LET s == SelectSeq(sentLog, LAMBDA e : e[1] = k)
    IN [j \in 1..Len(s) |-> s[j][2]]

\* C15: every PressLength passed to publish, Debounce included, is sent to
\* every output channel, channel after channel in the order of the slice; the
\* sends of a press all come before the sends of the next press, so each
\* channel is sent the presses in the order of their completion, and what a
\* channel buffers is the latest of what was sent to it, oldest first.
C15_DeliveryOrder ==
    constructed =>
        LET n == Len(outChans)
        IN /\ \A j \in 1..Len(sentLog) :
                  sentLog[j] = <<((j - 1) % n) + 1, pubLog[((j - 1) \div n) + 1]>>
           /\ Len(sentLog) = IF pc = "publish"
                             THEN n * (Len(pubLog) - 1) + (i - 1)
                             ELSE n * Len(pubLog)
           /\ \A k \in 1..n :
                  LET s == SentTo(k)
                  IN outChans[k] = SubSeq(s, Len(s) - Len(outChans[k]) + 1, Len(s))

\* two presses of different classes, the first a Debounce, have both been sent
\* to both output channels
C15_Witness ==
    /\ Len(outChans) = 2
    /\ Len(pubLog) = 2
    /\ pubLog[1] = Debounce
    /\ pubLog[2] = LongPress
    /\ SentTo(2) = pubLog
    /\ pc = "select"

\* C16: there is no timeout for a button held down: once ticks has left 0,
\* the recognizer calls publish or has ticks back at 0 only by consuming an
\* up-edge with ticks >= 2; no tick and no down-edge, however many, does it.
C16_NoTimeout ==
    [][((~Idle /\ Idle') \/ CallsPublish) => (ConsumesUp /\ debounced(ticks))]_vars

\* C17: the duration classified at an accepted up-edge is the time of that
\* up-edge minus the time of the down-edge that was consumed in IDLE; while the
\* press lasts btnDown stays the time of that down-edge, whatever edges are
\* ignored meanwhile; and exactly one down-edge was consumed in IDLE since the
\* previous call of publish.
C17_DurationFromFirstDown ==
    [][/\ CallsPublish =>
            /\ ConsumesUp
            /\ downs = 1
            /\ p' = recognize(Sub(Head(isrChan).t, downAt))
       /\ ~Idle' => btnDown' = downAt'
      ]_vars

\* C18: whenever the loop of RecognizeAndPublish waits at its select, ticks
\* is 0 exactly when btnDown is empty; so the clearing of btnDown by a tick
\* consumed with ticks = 0 changes nothing.
C18_IdleIffNoDownStart ==
    [][/\ pc' = "select" => (ticks' = 0 <=> btnDown' = ZeroTime)
       /\ (pc = "select" /\ pc' = "select" /\ ticks = 0 /\ isrChan' = isrChan)
             => btnDown' = btnDown
      ]_vars

\* C20: ticks behaves as an unsigned counter: a tick consumed while a press
\* is under way adds exactly 1 to it, and however many ticks follow one
\* another it never becomes negative and never comes back to 0.
C20_TicksUnsigned ==
    [][(isrChan' = isrChan /\ ticks' # ticks) => (ticks' = ticks + 1 /\ ticks' >= 1)]_vars

====
